---- MODULE Spec2Model ----
(***************************************************************************)
(* Model of the Gilbert-curve pixel permutation of LX_IMG_Confusion.       *)
(*                                                                         *)
(*   - gilbert2d / generate2d (src/unnamed/part_000:2-76, identical in     *)
(*     src/script.js:2-76) as an explicit call-stack machine (Spec), and   *)
(*     as a recursive operator built from the same helper definitions;     *)
(*   - applyGilbertConfusion (part_000:403-418) and the permutation loop   *)
(*     of decrypt (part_000:495-508) on pixel buffers (PermSpec);          *)
(*   - the loop body of applyGilbertConfusion run by workers that own      *)
(*     disjoint slices of the index range (ParSpec);                       *)
(*   - applyBlockConfusion / processBlockSmooth (part_000:421-473) on      *)
(*     pixel buffers (BlockSpec);                                          *)
(*   - the handlers confuseImage, deconfuseImage, encrypt, decrypt and the *)
(*     toBlob callback (part_000:300-329, 360-400, 476-517) (CallSpec);    *)
(*   - the page: handleFileUpload with its load, error and timer           *)
(*     callbacks, restoreImage, convertToJPG, invertImage / invert and the *)
(*     handlers above (part_000:79-84, 210-357, 568-607, 934-968), from    *)
(*     the state the constructor leaves (UiSpec; FairUiSpec with the       *)
(*     queued callbacks eventually run).                                   *)
(***************************************************************************)
EXTENDS Integers, Sequences, FiniteSets, TLC

VARIABLES
    width, height,   \* arguments of gilbert2d / dimensions of the image
    stack,           \* call stack of generate2d activations, top first
    coordinates,     \* the array generate2d pushes cells to
    cpc,             \* gilbert2d: "run", "done" (returned), "overflow" (RangeError)
    strengthK,       \* confusionStrength = strengthK / StrengthDen
    X,               \* the pixel buffer the first operation started from
    canvas,          \* pixel content of the canvas (ctx)
    before,          \* pixel content of the canvas when the last operation began
    imgdata,         \* ctx.getImageData(...).data of the running operation
    imgdata2,        \* new ImageData(width, height).data of the running operation
    curve,           \* const curve
    offset,          \* const offset
    i,               \* loop variable of the permutation loop
    ppc,             \* "idle", "encLoop", "decLoop"; "par" under ParSpec
    ops,             \* operations completed so far, in order
    writes,          \* per pixel: number of imgdata2.data.set calls that hit it
    wnext,           \* per worker: next index of its slice
    writers,         \* per pixel: the workers that wrote it
    blockSize,       \* parseInt of the blockSize field
    tileX, tileY,    \* loop variables x, y of applyBlockConfusion
    tiles,           \* the tiles processBlockSmooth has been called for, in order
    swrites,         \* per sample: number of assignments to data[...] that hit it
    imgSrc,          \* displayImg.src: 0 is the empty string, n > 0 the n-th URL
    display,         \* displayImg.style.display
    toast,           \* type of the last showToast
    scheduled,       \* requestAnimationFrame callbacks not yet run
    pending,         \* toBlob callbacks not yet run, each with its blob
    calls,           \* what the last call of encrypt, decrypt or invert called, in order
    currentFile,     \* this.currentFile
    originalImage,   \* this.originalImage: the file the image was loaded from
    shown,           \* the file or blob the URL in displayImg.src refers to
    loading,         \* handleFileUpload: images whose load has not ended
    converting,      \* convertToJPG: toBlob callbacks not yet run
    uncaught         \* a handler has ended with an uncaught TypeError

vars == <<width, height, stack, coordinates, cpc, strengthK, X, canvas, before, imgdata,
          imgdata2, curve, offset, i, ppc, ops, writes, wnext, writers,
          blockSize, tileX, tileY, tiles, swrites,
          imgSrc, display, toast, scheduled, pending, calls,
          currentFile, originalImage, shown, loading, converting, uncaught>>

curveVars == <<width, height, stack, coordinates, cpc>>
permVars == <<strengthK, X, canvas, before, imgdata, imgdata2, curve, offset, i, ppc, ops, writes>>
parVars == <<wnext, writers>>
blockVars == <<blockSize, tileX, tileY, tiles, swrites>>
callVars == <<imgSrc, display, toast, scheduled, pending, calls>>
uiVars == <<currentFile, originalImage, shown, loading, converting, uncaught>>

----------------------------------------------------------------------------
(* Bounds of the model *)

MaxDim == 9          \* gilbert2d is run for width, height in -MaxNeg..MaxDim
MaxNeg == 2
StackLimit == 10     \* depth at which the engine raises RangeError
MaxImg == 3          \* images of 1..MaxImg by 1..MaxImg pixels
StrengthDen == 10    \* strengths 0/StrengthDen .. StrengthDen/StrengthDen
NumWorkers == 2
MaxOps == 2          \* operations applied one after the other to one image

----------------------------------------------------------------------------
(* Arithmetic helpers: Math.abs, Math.sign, Math.floor(n / 2) *)

Abs(n) == IF n < 0 THEN -n ELSE n

Sign(n) == IF n > 0 THEN 1 ELSE IF n < 0 THEN -1 ELSE 0

\* mutant: n / 2 truncated toward zero
FloorHalfTrunc(n) == IF n >= 0 THEN n \div 2 ELSE 0 - ((0 - n) \div 2)

\* Math.floor(n / 2): rounds toward minus infinity
FloorHalf(n) == IF n >= 0 THEN n \div 2 ELSE -((1 - n) \div 2)

Max(a, b) == IF a >= b THEN a ELSE b

----------------------------------------------------------------------------
(* generate2d: one activation is the argument tuple plus the number of     *)
(* recursive calls it has already made.                                    *)

Frame(x, y, ax, ay, bx, by) ==
    [x |-> x, y |-> y, ax |-> ax, ay |-> ay, bx |-> bx, by |-> by]

FrameW(f) == Abs(f.ax + f.ay)
FrameH(f) == Abs(f.bx + f.by)

IsRowFill(f) == FrameH(f) = 1
IsColFill(f) == FrameH(f) # 1 /\ FrameW(f) = 1
IsBase(f) == IsRowFill(f) \/ IsColFill(f)

\* mutant: the row fill loop runs to i <= w
RowCellsOffByOne(f) ==
    [n \in 1..(FrameW(f) + 1) |-> <<f.x + (n - 1) * Sign(f.ax), f.y + (n - 1) * Sign(f.ay)>>]

\* for (i = 0; i < w; i++) { push([x, y]); x += dax; y += day }
RowCells(f) ==
    [n \in 1..FrameW(f) |-> <<f.x + (n - 1) * Sign(f.ax), f.y + (n - 1) * Sign(f.ay)>>]

\* for (i = 0; i < h; i++) { push([x, y]); x += dbx; y += dby }
ColCells(f) ==
    [n \in 1..FrameH(f) |-> <<f.x + (n - 1) * Sign(f.bx), f.y + (n - 1) * Sign(f.by)>>]

IsLong(f) == 2 * FrameW(f) > 3 * FrameH(f)

\* mutant: a is passed on without being halved
HalfANotHalved(f) == <<f.ax, f.ay>>

\* the unbiased halves
HalfA(f) == <<FloorHalf(f.ax), FloorHalf(f.ay)>>
HalfB(f) == <<FloorHalf(f.bx), FloorHalf(f.by)>>

\* if ((w2 % 2) && (w > 2)) { ax2 += dax; ay2 += day }
BiasA(f) == (Abs(HalfA(f)[1] + HalfA(f)[2]) % 2 = 1) /\ (FrameW(f) > 2)

\* mutant: the bias without its guard h > 2
BiasBNoGuard(f) == Abs(HalfB(f)[1] + HalfB(f)[2]) % 2 = 1

\* if ((h2 % 2) && (h > 2)) { bx2 += dbx; by2 += dby }
BiasB(f) == (Abs(HalfB(f)[1] + HalfB(f)[2]) % 2 = 1) /\ (FrameH(f) > 2)

\* mutant: the third sub-region starts one cell too far along a
ThirdOriginNoStepBack(f, bx2, by2) ==
    << f.x + f.ax + (bx2 - Sign(f.bx)), f.y + f.ay + (by2 - Sign(f.by)) >>

\* origin of the third sub-region of the standard split
ThirdOrigin(f, bx2, by2) ==
    << f.x + (f.ax - Sign(f.ax)) + (bx2 - Sign(f.bx)),
       f.y + (f.ay - Sign(f.ay)) + (by2 - Sign(f.by)) >>

\* the arguments of the recursive calls, in call order
SubCalls(f) ==
    LET dax == Sign(f.ax)
        day == Sign(f.ay)
        dbx == Sign(f.bx)
        dby == Sign(f.by)
    IN IF IsLong(f)
       THEN LET ax2 == HalfA(f)[1] + (IF BiasA(f) THEN dax ELSE 0)
                ay2 == HalfA(f)[2] + (IF BiasA(f) THEN day ELSE 0)
            IN << Frame(f.x, f.y, ax2, ay2, f.bx, f.by),
                  Frame(f.x + ax2, f.y + ay2, f.ax - ax2, f.ay - ay2, f.bx, f.by) >>
       ELSE LET ax2 == HalfA(f)[1]
                ay2 == HalfA(f)[2]
                bx2 == HalfB(f)[1] + (IF BiasB(f) THEN dbx ELSE 0)
                by2 == HalfB(f)[2] + (IF BiasB(f) THEN dby ELSE 0)
            IN << Frame(f.x, f.y, bx2, by2, ax2, ay2),
                  Frame(f.x + bx2, f.y + by2, f.ax, f.ay, f.bx - bx2, f.by - by2),
                  Frame(ThirdOrigin(f, bx2, by2)[1], ThirdOrigin(f, bx2, by2)[2],
                        -bx2, -by2, -(f.ax - ax2), -(f.ay - ay2)) >>

\* mutant: the dispatch on width > height
InitialCallStrict(w, h) ==
    IF w > h THEN Frame(0, 0, w, 0, 0, h) ELSE Frame(0, 0, 0, h, w, 0)

\* gilbert2d's dispatch on width >= height
InitialCall(w, h) ==
    IF w >= h THEN Frame(0, 0, w, 0, 0, h) ELSE Frame(0, 0, 0, h, w, 0)

Activation(f) == [f |-> f, pos |-> 0]

Top == stack[1]

Dims == (0 - MaxNeg)..MaxDim

InitCurve ==
    /\ width \in Dims
    /\ height \in Dims
    /\ stack = << Activation(InitialCall(width, height)) >>
    /\ coordinates = << >>
    /\ cpc = "run"

\* h === 1: trivial row fill, then return
RowFill ==
    /\ cpc = "run" /\ stack # << >>
    /\ Top.pos = 0 /\ IsRowFill(Top.f)
    /\ coordinates' = coordinates \o RowCells(Top.f)
    /\ stack' = Tail(stack)
    /\ UNCHANGED <<width, height, cpc>>
    /\ UNCHANGED <<permVars, parVars, blockVars, callVars, uiVars>>

\* w === 1: trivial column fill, then return
ColFill ==
    /\ cpc = "run" /\ stack # << >>
    /\ Top.pos = 0 /\ IsColFill(Top.f)
    /\ coordinates' = coordinates \o ColCells(Top.f)
    /\ stack' = Tail(stack)
    /\ UNCHANGED <<width, height, cpc>>
    /\ UNCHANGED <<permVars, parVars, blockVars, callVars, uiVars>>

\* the next recursive call of the activation on top
CallSub ==
    /\ cpc = "run" /\ stack # << >>
    /\ ~IsBase(Top.f)
    /\ Top.pos < Len(SubCalls(Top.f))
    /\ Len(stack) < StackLimit
    /\ stack' = << Activation(SubCalls(Top.f)[Top.pos + 1]) >>
                  \o << [Top EXCEPT !.pos = @ + 1] >> \o Tail(stack)
    /\ UNCHANGED <<width, height, coordinates, cpc>>
    /\ UNCHANGED <<permVars, parVars, blockVars, callVars, uiVars>>

\* the call stack is exhausted: the engine throws out of gilbert2d
Overflow ==
    /\ cpc = "run" /\ stack # << >>
    /\ ~IsBase(Top.f)
    /\ Top.pos < Len(SubCalls(Top.f))
    /\ Len(stack) >= StackLimit
    /\ cpc' = "overflow"
    /\ UNCHANGED <<width, height, stack, coordinates>>
    /\ UNCHANGED <<permVars, parVars, blockVars, callVars, uiVars>>

\* all recursive calls of the activation on top have returned
Return ==
    /\ cpc = "run" /\ stack # << >>
    /\ ~IsBase(Top.f)
    /\ Top.pos = Len(SubCalls(Top.f))
    /\ stack' = Tail(stack)
    /\ UNCHANGED <<width, height, coordinates, cpc>>
    /\ UNCHANGED <<permVars, parVars, blockVars, callVars, uiVars>>

\* return coordinates
Finish ==
    /\ cpc = "run" /\ stack = << >>
    /\ cpc' = "done"
    /\ UNCHANGED <<width, height, stack, coordinates>>
    /\ UNCHANGED <<permVars, parVars, blockVars, callVars, uiVars>>

NextCurve == RowFill \/ ColFill \/ CallSub \/ Overflow \/ Return \/ Finish

\* value of the variables a specification does not use
NoBuffer == << >>

PermUnused ==
    /\ strengthK = 0 /\ X = NoBuffer /\ canvas = NoBuffer /\ before = NoBuffer
    /\ imgdata = NoBuffer /\ imgdata2 = NoBuffer /\ curve = << >> /\ offset = 0
    /\ i = 0 /\ ppc = "unused" /\ ops = << >> /\ writes = << >>

ParUnused == wnext = << >> /\ writers = << >>

BlockUnused ==
    blockSize = 0 /\ tileX = 0 /\ tileY = 0 /\ tiles = << >> /\ swrites = << >>

CallUnused ==
    /\ imgSrc = 0 /\ display = "unused" /\ toast = "unused"
    /\ scheduled = << >> /\ pending = << >> /\ calls = << >>

\* null, and the blob a toBlob callback of encrypt, decrypt or invert receives
Null == [kind |-> "null"]
Blob == [kind |-> "blob"]

UiUnused ==
    /\ currentFile = Null /\ originalImage = Null /\ shown = Null
    /\ loading = << >> /\ converting = << >> /\ uncaught = FALSE

Init == InitCurve /\ PermUnused /\ ParUnused /\ BlockUnused /\ CallUnused /\ UiUnused

Spec == Init /\ [][NextCurve]_vars

FairSpec == Spec /\ WF_vars(NextCurve)

----------------------------------------------------------------------------
(* gilbert2d as a function of its arguments: the same base cases and the   *)
(* same recursive calls, concatenated in call order.                       *)

RECURSIVE generate2d(_)
generate2d(f) ==
    IF IsRowFill(f) THEN RowCells(f)
    ELSE IF IsColFill(f) THEN ColCells(f)
    ELSE LET s == SubCalls(f)
         IN IF Len(s) = 2
            THEN generate2d(s[1]) \o generate2d(s[2])
            ELSE generate2d(s[1]) \o generate2d(s[2]) \o generate2d(s[3])

gilbert2d(w, h) == generate2d(InitialCall(w, h))

\* the call-stack machine and the recursive operator agree
MachineAgrees ==
    (cpc = "done" /\ width >= 1 /\ height >= 1) => coordinates = gilbert2d(width, height)

----------------------------------------------------------------------------
(* Properties of the curve *)

Valid == width >= 1 /\ height >= 1
Done == cpc = "done"

Manhattan(p, q) == Abs(p[1] - q[1]) + Abs(p[2] - q[2])
Chebyshev(p, q) == Max(Abs(p[1] - q[1]), Abs(p[2] - q[2]))

InGrid(p, w, h) == p[1] >= 0 /\ p[1] < w /\ p[2] >= 0 /\ p[2] < h

IsBijection(c, w, h) ==
    /\ Len(c) = w * h
    /\ \A m \in 1..Len(c) : InGrid(c[m], w, h)
    /\ \A m, n \in 1..Len(c) : m # n => c[m] # c[n]

\* C1: for width, height >= 1 the returned sequence has exactly width*height
\* cells, pairwise distinct, each inside [0,width) x [0,height).
C1_Coverage ==
    (Valid /\ Done) => IsBijection(coordinates, width, height)

C1_Witness ==
    /\ Done /\ width >= 3 /\ height >= 2 /\ width # height
    /\ Len(coordinates) = width * height

DiagonalSteps(c) ==
    { m \in 1..(Len(c) - 1) : Manhattan(c[m], c[m + 1]) # 1 }

\* the sizes on which the curve takes a diagonal step
OddByEven(w, h) ==
    /\ Max(w, h) % 2 = 1
    /\ (IF w <= h THEN w ELSE h) % 2 = 0
    /\ (IF w <= h THEN w ELSE h) >= 4

C7_DegenerateEmpty ==
    (width <= 0 \/ height <= 0) => (cpc # "overflow" /\ coordinates = << >>)

NoZeroCall ==
    \A k \in 1..Len(stack) : FrameW(stack[k].f) >= 1 /\ FrameH(stack[k].f) >= 1

\* C8: for width, height >= 1 the recursion terminates (gilbert2d returns),
\* and no generate2d call is ever made with w = 0 or h = 0.
C8_Termination ==
    /\ [](Valid => (NoZeroCall /\ cpc # "overflow"))
    /\ (Valid ~> Done)

C8_Witness ==
    /\ Done /\ width >= 2 /\ height >= 2 /\ Len(coordinates) = width * height

----------------------------------------------------------------------------
(* The permutation engine: applyGilbertConfusion and decrypt on pixel      *)
(* buffers.  A buffer is a function on 0..4*N-1 (Uint8ClampedArray); the   *)
(* encoding of the canvas to a JPEG blob between two operations is outside *)
(* the model: an operation reads the buffer the previous one put.          *)

NPix == width * height

\* JavaScript's %: the result has the sign of the dividend
JsMod(a, n) == IF a >= 0 THEN a % n ELSE 0 - ((0 - a) % n)

\* Math.round((Math.sqrt(5) - 1) / 2 * m / d) for integers m and d >= 1:
\* the largest r with r <= (sqrt(5) - 1) * m / (2 * d) + 1/2, that is
\* 2*d*r - d + m <= sqrt(5) * m, decided on the squares.
RoundPhiOk(r, m, d) ==
    LET t == 2 * d * r - d + m
    IN  IF m >= 0 THEN t <= 0 \/ t * t <= 5 * m * m
                  ELSE t < 0 /\ t * t >= 5 * m * m

RoundPhi(m, d) ==
    CHOOSE r \in (IF m >= 0 THEN 0..m ELSE m..0) :
        RoundPhiOk(r, m, d) /\ ~RoundPhiOk(r + 1, m, d)

\* mutant: the offset without the strength factor
EncryptOffsetNoStrength(w, h, k) == RoundPhi(w * h, 1)

\* mutant: the offset computed from the width alone
EncryptOffsetNoHeight(w, h, k) == RoundPhi(w * k, StrengthDen)

\* Math.round((Math.sqrt(5) - 1) / 2 * width * height * strength)
EncryptOffset(w, h, k) == RoundPhi(w * h * k, StrengthDen)

\* mutant: the offset of decrypt truncated instead of rounded
DecryptOffsetTruncated(w, h) == (618 * w * h) \div 1000

\* Math.round((Math.sqrt(5) - 1) / 2 * width * height)
DecryptOffset(w, h) == RoundPhi(w * h, 1)

\* encrypt of script.js: Math.round((Math.sqrt(5) - 1) / 2 * width * height)
ScriptEncryptOffset(w, h) == RoundPhi(w * h, 1)

\* 4 * (pos[0] + pos[1] * width)
PixelIndex(pos, w) == 4 * (pos[1] + pos[2] * w)

\* mutant: the curve index without the reduction modulo width * height
NewIndexNoMod(idx, off, n) == idx + off

\* mutant: the curve index reduced modulo the width
NewIndexModWidth(idx, off, n) == JsMod(idx + off, width)

\* (i + offset) % (width * height)
NewIndex(idx, off, n) == JsMod(idx + off, n)

\* curve[k] of the 0-based array
CurveAt(c, k) == c[k + 1]

\* mutant: only the R, G and B samples are copied
SetPixelRGB(dst, to, src, from) ==
    [p \in DOMAIN dst |-> IF p >= to /\ p < to + 3 THEN src[from + (p - to)] ELSE dst[p]]

\* dst.set(src.slice(from, from + 4), to)
SetPixel(dst, to, src, from) ==
    [p \in DOMAIN dst |-> IF p >= to /\ p < to + 4 THEN src[from + (p - to)] ELSE dst[p]]

\* mutant: the permutation is done in place, in the input buffer
EncryptBodyInPlace(in, out, c, off, idx, w, h) ==
    LET old_p == PixelIndex(CurveAt(c, idx), w)
        new_p == PixelIndex(CurveAt(c, NewIndex(idx, off, w * h)), w)
    IN << SetPixel(in, new_p, in, old_p), out >>

\* one iteration of applyGilbertConfusion's loop: the buffers <<imgdata, imgdata2>> after it
EncryptBody(in, out, c, off, idx, w, h) ==
    LET old_p == PixelIndex(CurveAt(c, idx), w)
        new_p == PixelIndex(CurveAt(c, NewIndex(idx, off, w * h)), w)
    IN << in, SetPixel(out, new_p, in, old_p) >>

\* one iteration of decrypt's loop
DecryptBody(in, out, c, off, idx, w, h) ==
    LET old_p == PixelIndex(CurveAt(c, idx), w)
        new_p == PixelIndex(CurveAt(c, NewIndex(idx, off, w * h)), w)
    IN << in, SetPixel(out, old_p, in, new_p) >>

\* the pixel (buffer index / 4) an iteration writes
EncryptTarget(c, off, idx, w, h) ==
    PixelIndex(CurveAt(c, NewIndex(idx, off, w * h)), w) \div 4

DecryptTarget(c, off, idx, w, h) == PixelIndex(CurveAt(c, idx), w) \div 4

\* new ImageData(width, height): transparent black
NewImageData(w, h) == [p \in 0..(4 * w * h - 1) |-> 0]

\* the buffers an image is started from: all samples different, and a
\* buffer with repeated samples
SampleBuffers(n) ==
    { [p \in 0..(4 * n - 1) |-> p % 256], [p \in 0..(4 * n - 1) |-> (7 * p + 3) % 5] }

NoWrites(n) == [p \in 0..(n - 1) |-> 0]

Strengths == 0..StrengthDen

InitPerm ==
    /\ width \in 1..MaxImg
    /\ height \in 1..MaxImg
    /\ strengthK \in Strengths
    /\ X \in SampleBuffers(width * height)
    /\ canvas = X
    /\ before = X
    /\ imgdata = NoBuffer /\ imgdata2 = NoBuffer
    /\ curve = << >> /\ offset = 0 /\ i = 0
    /\ ppc = "idle" /\ ops = << >>
    /\ writes = NoWrites(width * height)

\* applyGilbertConfusion, lines 404-407
GilbertBegin ==
    /\ ppc = "idle" /\ Len(ops) < MaxOps
    /\ imgdata' = canvas
    /\ before' = canvas
    /\ imgdata2' = NewImageData(width, height)
    /\ curve' = gilbert2d(width, height)
    /\ offset' = EncryptOffset(width, height, strengthK)
    /\ i' = 0
    /\ writes' = NoWrites(NPix)
    /\ ppc' = "encLoop"
    /\ UNCHANGED <<strengthK, X, canvas, ops>>
    /\ UNCHANGED <<curveVars, parVars, blockVars, callVars, uiVars>>

\* applyGilbertConfusion, one iteration of the loop
GilbertStep ==
    /\ ppc = "encLoop" /\ i < NPix
    /\ imgdata' = EncryptBody(imgdata, imgdata2, curve, offset, i, width, height)[1]
    /\ imgdata2' = EncryptBody(imgdata, imgdata2, curve, offset, i, width, height)[2]
    /\ writes' = [writes EXCEPT ![EncryptTarget(curve, offset, i, width, height)] = @ + 1]
    /\ i' = i + 1
    /\ UNCHANGED <<strengthK, X, canvas, before, curve, offset, ppc, ops>>
    /\ UNCHANGED <<curveVars, parVars, blockVars, callVars, uiVars>>

\* applyGilbertConfusion: ctx.putImageData(imgdata2, 0, 0)
GilbertEnd ==
    /\ ppc = "encLoop" /\ i >= NPix
    /\ canvas' = imgdata2
    /\ ops' = Append(ops, "encrypt")
    /\ ppc' = "idle"
    /\ UNCHANGED <<strengthK, X, before, imgdata, imgdata2, curve, offset, i, writes>>
    /\ UNCHANGED <<curveVars, parVars, blockVars, callVars, uiVars>>

\* decrypt, lines 495-498
DecryptBegin ==
    /\ ppc = "idle" /\ Len(ops) < MaxOps
    /\ imgdata' = canvas
    /\ before' = canvas
    /\ imgdata2' = NewImageData(width, height)
    /\ curve' = gilbert2d(width, height)
    /\ offset' = DecryptOffset(width, height)
    /\ i' = 0
    /\ writes' = NoWrites(NPix)
    /\ ppc' = "decLoop"
    /\ UNCHANGED <<strengthK, X, canvas, ops>>
    /\ UNCHANGED <<curveVars, parVars, blockVars, callVars, uiVars>>

\* decrypt, one iteration of the loop
DecryptStep ==
    /\ ppc = "decLoop" /\ i < NPix
    /\ imgdata' = DecryptBody(imgdata, imgdata2, curve, offset, i, width, height)[1]
    /\ imgdata2' = DecryptBody(imgdata, imgdata2, curve, offset, i, width, height)[2]
    /\ writes' = [writes EXCEPT ![DecryptTarget(curve, offset, i, width, height)] = @ + 1]
    /\ i' = i + 1
    /\ UNCHANGED <<strengthK, X, canvas, before, curve, offset, ppc, ops>>
    /\ UNCHANGED <<curveVars, parVars, blockVars, callVars, uiVars>>

\* decrypt: ctx.putImageData(imgdata2, 0, 0)
DecryptEnd ==
    /\ ppc = "decLoop" /\ i >= NPix
    /\ canvas' = imgdata2
    /\ ops' = Append(ops, "decrypt")
    /\ ppc' = "idle"
    /\ UNCHANGED <<strengthK, X, before, imgdata, imgdata2, curve, offset, i, writes>>
    /\ UNCHANGED <<curveVars, parVars, blockVars, callVars, uiVars>>

CurveUnused == stack = << >> /\ coordinates = << >> /\ cpc = "unused"

NextPerm ==
    GilbertBegin \/ GilbertStep \/ GilbertEnd \/ DecryptBegin \/ DecryptStep \/ DecryptEnd

PermInit == InitPerm /\ CurveUnused /\ ParUnused /\ BlockUnused /\ CallUnused /\ UiUnused

PermSpec == PermInit /\ [][NextPerm]_vars

----------------------------------------------------------------------------
(* The loop of applyGilbertConfusion run by NumWorkers workers, each owning *)
(* one contiguous slice of the index range, on a shared input buffer and a  *)
(* shared output buffer, with the curve and the offset computed once.       *)

Workers == 0..(NumWorkers - 1)

Min(a, b) == IF a <= b THEN a ELSE b

Chunk(n) == (n + NumWorkers - 1) \div NumWorkers

SliceLo(w, n) == Min(w * Chunk(n), n)
SliceHi(w, n) == Min((w + 1) * Chunk(n), n)

InitPar ==
    /\ width \in 1..MaxImg
    /\ height \in 1..MaxImg
    /\ strengthK \in Strengths
    /\ X \in SampleBuffers(width * height)
    /\ canvas = X
    /\ before = X
    /\ imgdata = X
    /\ imgdata2 = NewImageData(width, height)
    /\ curve = gilbert2d(width, height)
    /\ offset = EncryptOffset(width, height, strengthK)
    /\ i = 0
    /\ ppc = "par" /\ ops = << >>
    /\ writes = NoWrites(width * height)
    /\ wnext = [w \in Workers |-> SliceLo(w, width * height)]
    /\ writers = [p \in 0..(width * height - 1) |-> {}]

\* worker w runs the loop body for the next index of its slice
WorkerStep(w) ==
    /\ ppc = "par"
    /\ wnext[w] < SliceHi(w, NPix)
    /\ imgdata' = EncryptBody(imgdata, imgdata2, curve, offset, wnext[w], width, height)[1]
    /\ imgdata2' = EncryptBody(imgdata, imgdata2, curve, offset, wnext[w], width, height)[2]
    /\ writes' = [writes EXCEPT ![EncryptTarget(curve, offset, wnext[w], width, height)] = @ + 1]
    /\ writers' = [writers EXCEPT ![EncryptTarget(curve, offset, wnext[w], width, height)] = @ \cup {w}]
    /\ wnext' = [wnext EXCEPT ![w] = @ + 1]
    /\ UNCHANGED <<strengthK, X, canvas, before, curve, offset, i, ppc, ops>>
    /\ UNCHANGED <<curveVars, blockVars, callVars, uiVars>>

NextPar == \E w \in Workers : WorkerStep(w)

ParInit == InitPar /\ CurveUnused /\ BlockUnused /\ CallUnused /\ UiUnused

ParSpec == ParInit /\ [][NextPar]_vars

\* imgdata2 after the first n iterations of the sequential loop
RECURSIVE EncryptLoop(_, _, _, _, _, _, _)
EncryptLoop(in, out, c, off, n, w, h) ==
    IF n = 0 THEN out
    ELSE EncryptBody(in, EncryptLoop(in, out, c, off, n - 1, w, h), c, off, n - 1, w, h)[2]

----------------------------------------------------------------------------
(* Properties of the permutation engine *)

\* the 4 samples of the pixel at a grid cell, at buffer index 4*(x + y*width)
Pixel(buf, cell) == [c \in 0..3 |-> buf[4 * (cell[1] + cell[2] * width) + c]]

\* round(phi * N * strength) mod N
SpecOffset == RoundPhi(NPix * strengthK, StrengthDen) % NPix

TheCurve == gilbert2d(width, height)

\* C3: decrypt applied to the result of encrypt (strength s) gives back the
\* buffer encrypt started from, for every strength s.
C3_RoundTrip ==
    (ops = << "encrypt", "decrypt" >>) => canvas = X

\* C4: decrypt adds the same offset to the curve index as encrypt did for
\* the same width, height and strength, and copies the pixel at
\* curve[(i + offset) mod N] to curve[i].
C4_SameOffset ==
    (ppc = "decLoop") =>
        /\ JsMod(offset, NPix) = SpecOffset
        /\ (i = NPix =>
               \A j \in 0..(NPix - 1) :
                   Pixel(imgdata2, CurveAt(TheCurve, j))
                       = Pixel(imgdata, CurveAt(TheCurve, (j + SpecOffset) % NPix)))

\* C5: after the Gilbert encrypt the output pixel at curve[(i + offset) mod N]
\* holds the 4 samples of the input pixel at curve[i], for every i in [0, N),
\* and every output pixel is written exactly once.
C5_EncryptMapping ==
    (ppc = "encLoop" /\ i = NPix) =>
        /\ \A j \in 0..(NPix - 1) :
               Pixel(imgdata2, CurveAt(TheCurve, (j + SpecOffset) % NPix))
                   = Pixel(imgdata, CurveAt(TheCurve, j))
        /\ \A p \in 0..(NPix - 1) : writes[p] = 1

C5_Witness ==
    /\ ppc = "encLoop" /\ i = NPix
    /\ width = 3 /\ height = 2 /\ strengthK = 5
    /\ imgdata2 # imgdata

C9_InputUntouched ==
    (ppc \in {"encLoop", "decLoop"} \/ Len(ops) > 0) =>
        /\ imgdata = before
        /\ DOMAIN imgdata2 = DOMAIN imgdata
        /\ DOMAIN imgdata = 0..(4 * NPix - 1)

C9_Witness ==
    /\ ppc = "idle" /\ ops = << "encrypt", "decrypt" >>
    /\ canvas # before
    /\ imgdata = before

AllWorkersDone == \A w \in Workers : wnext[w] = SliceHi(w, NPix)

\* C10: the map from source index to destination cell is injective; with
\* the index range split into disjoint slices run by independent workers,
\* in every interleaving no output pixel is written by two workers (nor
\* twice), and the final output is that of the sequential loop.
C10_RaceFree ==
    (ppc = "par") =>
        /\ \A j1, j2 \in 0..(NPix - 1) :
               j1 # j2 => EncryptTarget(curve, offset, j1, width, height)
                              # EncryptTarget(curve, offset, j2, width, height)
        /\ \A p \in 0..(NPix - 1) : Cardinality(writers[p]) <= 1 /\ writes[p] <= 1
        /\ imgdata = X
        /\ (AllWorkersDone =>
               imgdata2 = EncryptLoop(X, NewImageData(width, height), curve, offset,
                                      NPix, width, height))

C10_Witness ==
    /\ ppc = "par" /\ AllWorkersDone
    /\ width = 3 /\ height = 3 /\ offset > 0
    /\ \E p, q \in 0..(NPix - 1) : writers[p] # writers[q]

----------------------------------------------------------------------------
(* Further properties of the curve and of its recursion (Spec) *)

\* C16: gilbert2d(4,1), gilbert2d(1,4) and gilbert2d(2,2) are the three
\* sequences below, in this order.
C16_ConcreteCurves ==
    Done =>
        /\ (width = 4 /\ height = 1) =>
               coordinates = << <<0, 0>>, <<1, 0>>, <<2, 0>>, <<3, 0>> >>
        /\ (width = 1 /\ height = 4) =>
               coordinates = << <<0, 0>>, <<0, 1>>, <<0, 2>>, <<0, 3>> >>
        /\ (width = 2 /\ height = 2) =>
               coordinates = << <<0, 0>>, <<0, 1>>, <<1, 1>>, <<1, 0>> >>

C16_Witness == Done /\ width = 2 /\ height = 2 /\ Len(coordinates) = 4

FrameMax(f) == Max(FrameW(f), FrameH(f))

\* the activation stack[k] was called by stack[k + 1]
Callers == 1..(Len(stack) - 1)

\* C19 as stated: every recursive sub-call has max(w, h) strictly smaller
\* than the max(w, h) of the calling invocation.
C19_MaxDecreases ==
    Valid => \A k \in Callers : FrameMax(stack[k].f) < FrameMax(stack[k + 1].f)

\* C19 amended: every recursive sub-call has w + h strictly smaller than
\* the caller's, and max(w, h) not larger than the caller's.
C19_SumDecreases ==
    Valid =>
        \A k \in Callers :
            /\ FrameW(stack[k].f) + FrameH(stack[k].f)
                   < FrameW(stack[k + 1].f) + FrameH(stack[k + 1].f)
            /\ FrameMax(stack[k].f) <= FrameMax(stack[k + 1].f)

\* a standard split whose second sub-call keeps the caller's max(w, h)
C19_Witness ==
    /\ Valid /\ Len(stack) >= 2
    /\ ~IsLong(stack[2].f) /\ stack[2].pos = 2
    /\ FrameMax(stack[1].f) = FrameMax(stack[2].f)

\* n / 2 rounded toward zero, and toward minus infinity
HalfTowardZero(n) == CHOOSE q \in (0 - Abs(n))..Abs(n) : Abs(n - 2 * q) <= 1 /\ Abs(2 * q) <= Abs(n)
HalfTowardMinusInf(n) == CHOOSE q \in (0 - Abs(n))..Abs(n) : 2 * q <= n /\ n < 2 * q + 2

\* the half of a vector of grid length len, biased by one unit in the
\* vector's direction when the half's grid length is odd and len > 2
Biased(hx, hy, vx, vy, len) ==
    IF (Abs(hx + hy) % 2 = 1) /\ len > 2
    THEN << hx + Sign(vx), hy + Sign(vy) >>
    ELSE << hx, hy >>

Running == { k \in 1..Len(stack) : ~IsBase(stack[k].f) }

\* C20 as stated: in every call that splits, a2 and b2 before biasing are
\* a/2 and b/2 rounded toward zero.
C20_HalvesTowardZero ==
    Valid =>
        \A k \in Running :
            LET f == stack[k].f
            IN /\ HalfA(f) = << HalfTowardZero(f.ax), HalfTowardZero(f.ay) >>
               /\ HalfB(f) = << HalfTowardZero(f.bx), HalfTowardZero(f.by) >>

\* C20 amended: in every call that splits, a2 and b2 before biasing are
\* a/2 and b/2 rounded toward minus infinity (Math.floor: a negative odd
\* component is rounded away from zero); the long split passes a2 biased by
\* one unit in the direction of a exactly when |a2| is odd and w > 2, the
\* standard split passes b2 biased by one unit in the direction of b exactly
\* when |b2| is odd and h > 2, and a2 unbiased.
C20_HalvesFloor ==
    Valid =>
        /\ \A k \in Running :
               LET f == stack[k].f
               IN /\ HalfA(f) = << HalfTowardMinusInf(f.ax), HalfTowardMinusInf(f.ay) >>
                  /\ HalfB(f) = << HalfTowardMinusInf(f.bx), HalfTowardMinusInf(f.by) >>
        /\ \A k \in Callers :
               LET p == stack[k + 1].f
                   c == stack[k].f
                   a2 == << HalfTowardMinusInf(p.ax), HalfTowardMinusInf(p.ay) >>
                   b2 == << HalfTowardMinusInf(p.bx), HalfTowardMinusInf(p.by) >>
               IN stack[k + 1].pos = 1 =>
                      IF 2 * FrameW(p) > 3 * FrameH(p)
                      THEN << c.ax, c.ay >> = Biased(a2[1], a2[2], p.ax, p.ay, FrameW(p))
                      ELSE /\ << c.ax, c.ay >> = Biased(b2[1], b2[2], p.bx, p.by, FrameH(p))
                           /\ << c.bx, c.by >> = a2

\* a call that splits a vector with a negative odd component
C20_Witness ==
    /\ Valid /\ Len(stack) >= 2 /\ ~IsBase(Top.f)
    /\ Top.f.by < 0 /\ Top.f.by % 2 = 1
    /\ Top.pos = 0

----------------------------------------------------------------------------
(* Examples of the permutation (PermSpec) *)

\* C17: for width = height = 2 and strength 1 the offset is 2 and encrypt
\* moves the pixel at (0,0) to (1,1), (0,1) to (1,0), (1,1) to (0,0) and
\* (1,0) to (0,1).
C17_OffsetExample ==
    (ppc = "encLoop" /\ i = NPix /\ width = 2 /\ height = 2 /\ strengthK = StrengthDen) =>
        /\ offset = 2
        /\ Pixel(imgdata2, <<1, 1>>) = Pixel(imgdata, <<0, 0>>)
        /\ Pixel(imgdata2, <<1, 0>>) = Pixel(imgdata, <<0, 1>>)
        /\ Pixel(imgdata2, <<0, 0>>) = Pixel(imgdata, <<1, 1>>)
        /\ Pixel(imgdata2, <<0, 1>>) = Pixel(imgdata, <<1, 0>>)

C17_Witness ==
    /\ ppc = "encLoop" /\ i = NPix /\ width = 2 /\ height = 2 /\ strengthK = StrengthDen
    /\ \A p \in 0..15 : imgdata[p] = p

\* C18: gilbert2d(1,1) = [(0,0)], and on a 1x1 image encrypt (any strength
\* in [0,1]) and decrypt return a buffer equal to their input.
C18_SinglePixel ==
    (width = 1 /\ height = 1) =>
        /\ (ppc \in {"encLoop", "decLoop"} => curve = << <<0, 0>> >>)
        /\ ((ppc \in {"encLoop", "decLoop"} /\ i = NPix) => imgdata2 = imgdata)
        /\ (ppc = "idle" => canvas = X)

C18_Witness ==
    /\ width = 1 /\ height = 1 /\ strengthK = StrengthDen
    /\ ppc = "idle" /\ ops = << "encrypt", "decrypt" >>
    /\ X[3] = 3

----------------------------------------------------------------------------
(* The block transform: applyBlockConfusion (part_000:421-433) and          *)
(* processBlockSmooth (part_000:436-473).  data is the buffer of the        *)
(* ImageData read from the canvas and is modified in place.                 *)

MaxBlock == 3        \* applyBlockConfusion is run for blockSize in 1..MaxBlock

\* the arguments startX, startY, blockWidth, blockHeight of processBlockSmooth
Tile(startX, startY, blockWidth, blockHeight) ==
    [startX |-> startX, startY |-> startY,
     blockWidth |-> blockWidth, blockHeight |-> blockHeight]

\* the tile applyBlockConfusion passes for the loop variables x0, y0
TileAt(x0, y0, bs, w, h) == Tile(x0, y0, Min(bs, w - x0), Min(bs, h - y0))

\* const index, const tempIndex
Index(t, dx, dy, w) == ((t.startY + dy) * w + (t.startX + dx)) * 4
TempIndex(t, dx, dy) == (dy * t.blockWidth + dx) * 4

\* originalData after the first pair of loops: the samples of the tile
OriginalData(data, t, w) ==
    [q \in 0..(t.blockWidth * t.blockHeight * 4 - 1) |->
        data[Index(t, (q \div 4) % t.blockWidth, (q \div 4) \div t.blockWidth, w) + (q % 4)]]

\* mutant: the offsets are added to the half sizes
DistSqWrongSign(t, dx, dy) ==
    (2 * dx + t.blockWidth) * (2 * dx + t.blockWidth)
        + (2 * dy + t.blockHeight) * (2 * dy + t.blockHeight)

\* 4 * distance^2 and 4 * maxDistance^2
DistSq(t, dx, dy) ==
    (2 * dx - t.blockWidth) * (2 * dx - t.blockWidth)
        + (2 * dy - t.blockHeight) * (2 * dy - t.blockHeight)
MaxDistSq(t) == t.blockWidth * t.blockWidth + t.blockHeight * t.blockHeight

\* smoothFactor = 1 - sqrt(d / m) * k / StrengthDen is >= 0, is <= 1
SmoothFactorAtLeast0(k, d, m) ==
    k <= 0 \/ d = 0 \/ k * k * d <= StrengthDen * StrengthDen * m
SmoothFactorAtMost1(k, d, m) == k >= 0 \/ d = 0

\* storing a number in a Uint8ClampedArray
Clamp(v) == IF v < 0 THEN 0 ELSE IF v > 255 THEN 255 ELSE v

\* Math.floor(cur * smoothFactor + orig * (1 - smoothFactor)) with
\* smoothFactor = 1 - sqrt(d / m) * k / StrengthDen, stored in data: the sum
\* is cur - z with z = (cur - orig) * k * sqrt(d / m) / StrengthDen, and
\* floor and ceiling of |z| are decided on the squares.
Blend(cur, orig, k, d, m) ==
    LET q == cur - orig
        num == q * q * k * k * d
        den == StrengthDen * StrengthDen * m
        top == Abs(q * k)
        floorZ == CHOOSE f \in 0..top :
                      f * f * den <= num /\ (f + 1) * (f + 1) * den > num
        ceilZ == CHOOSE c \in 0..top :
                      c * c * den >= num /\ (c = 0 \/ (c - 1) * (c - 1) * den < num)
    IN  Clamp(IF Sign(q) * Sign(k) >= 0 THEN cur - ceilZ ELSE cur + floorZ)

\* mutant: the alpha sample is blended too
BlendedChannelsWithAlpha == 0..3

\* the samples of a pixel the second pair of loops assigns: data[index],
\* data[index + 1], data[index + 2]
BlendedChannels == 0..2

\* one iteration of the second pair of loops on st = <<data, write counts>>
SmoothPixel(st, orig, t, dx, dy, w, k) ==
    LET idx == Index(t, dx, dy, w)
        tmp == TempIndex(t, dx, dy)
        hit(p) == (p - idx) \in BlendedChannels
    IN  << [p \in DOMAIN st[1] |->
               IF hit(p)
               THEN Blend(st[1][p], orig[tmp + (p - idx)], k, DistSq(t, dx, dy), MaxDistSq(t))
               ELSE st[1][p]],
           [p \in DOMAIN st[2] |-> IF hit(p) THEN st[2][p] + 1 ELSE st[2][p]] >>

\* the first n iterations of the second pair of loops, dy outer, dx inner
RECURSIVE SmoothLoop(_, _, _, _, _, _)
SmoothLoop(st, orig, t, n, w, k) ==
    IF n = 0 THEN st
    ELSE SmoothPixel(SmoothLoop(st, orig, t, n - 1, w, k), orig, t,
                     (n - 1) % t.blockWidth, (n - 1) \div t.blockWidth, w, k)

processBlockSmooth(st, t, w, k) ==
    SmoothLoop(st, OriginalData(st[1], t, w), t, t.blockWidth * t.blockHeight, w, k)

\* mutant: x advances by one pixel
NextTileStepOne(x0, y0, bs, w) == IF x0 + 1 < w THEN <<x0 + 1, y0>> ELSE <<0, y0 + bs>>

\* the loop variables after the tile at (x0, y0): x += blockSize, and at the
\* end of a row y += blockSize and x = 0
NextTile(x0, y0, bs, w) == IF x0 + bs < w THEN <<x0 + bs, y0>> ELSE <<0, y0 + bs>>

\* the buffers the block transform is started from
BlockBuffers(n) ==
    SampleBuffers(n) \cup { [p \in 0..(4 * n - 1) |-> 255],
                            [p \in 0..(4 * n - 1) |-> (37 * p + 11) % 256] }

InitBlock ==
    /\ width \in 1..MaxImg
    /\ height \in 1..MaxImg
    /\ blockSize \in 1..MaxBlock
    /\ strengthK \in Strengths
    /\ X \in BlockBuffers(width * height)
    /\ canvas = X
    /\ before = X
    /\ imgdata = NoBuffer
    /\ tileX = 0 /\ tileY = 0 /\ tiles = << >>
    /\ swrites = NoWrites(4 * width * height)
    /\ ppc = "idle" /\ ops = << >>
    /\ imgdata2 = NoBuffer /\ curve = << >> /\ offset = 0 /\ i = 0 /\ writes = << >>

\* applyBlockConfusion, lines 422-423 and the start of the loops
BlockBegin ==
    /\ ppc = "idle" /\ Len(ops) < MaxOps
    /\ imgdata' = canvas
    /\ before' = canvas
    /\ tileX' = 0 /\ tileY' = 0
    /\ tiles' = << >>
    /\ swrites' = NoWrites(4 * NPix)
    /\ ppc' = "blockLoop"
    /\ UNCHANGED <<width, height, strengthK, X, canvas, ops, blockSize>>
    /\ UNCHANGED <<imgdata2, curve, offset, i, writes>>
    /\ UNCHANGED <<stack, coordinates, cpc, parVars, callVars, uiVars>>

\* applyBlockConfusion, one iteration of the inner loop: the call of
\* processBlockSmooth for the tile at (x, y), then the loop increments
TileStep ==
    /\ ppc = "blockLoop" /\ tileY < height
    /\ LET t == TileAt(tileX, tileY, blockSize, width, height)
           st == processBlockSmooth(<<imgdata, swrites>>, t, width, strengthK)
       IN  /\ imgdata' = st[1]
           /\ swrites' = st[2]
           /\ tiles' = Append(tiles, t)
    /\ tileX' = NextTile(tileX, tileY, blockSize, width)[1]
    /\ tileY' = NextTile(tileX, tileY, blockSize, width)[2]
    /\ UNCHANGED <<width, height, strengthK, X, canvas, before, ppc, ops, blockSize>>
    /\ UNCHANGED <<imgdata2, curve, offset, i, writes>>
    /\ UNCHANGED <<stack, coordinates, cpc, parVars, callVars, uiVars>>

\* applyBlockConfusion: ctx.putImageData(imgdata, 0, 0)
BlockEnd ==
    /\ ppc = "blockLoop" /\ tileY >= height
    /\ canvas' = imgdata
    /\ ops' = Append(ops, "block")
    /\ ppc' = "idle"
    /\ UNCHANGED <<width, height, strengthK, X, before, imgdata, blockSize>>
    /\ UNCHANGED <<tileX, tileY, tiles, swrites>>
    /\ UNCHANGED <<imgdata2, curve, offset, i, writes>>
    /\ UNCHANGED <<stack, coordinates, cpc, parVars, callVars, uiVars>>

NextBlock == BlockBegin \/ TileStep \/ BlockEnd

BlockInit == InitBlock /\ CurveUnused /\ ParUnused /\ CallUnused /\ UiUnused

BlockSpec == BlockInit /\ [][NextBlock]_vars

\* the loops of applyBlockConfusion from the tile at (x0, y0) on
RECURSIVE BlockLoop(_, _, _, _, _, _, _)
BlockLoop(st, x0, y0, bs, w, h, k) ==
    IF y0 >= h THEN st
    ELSE BlockLoop(processBlockSmooth(st, TileAt(x0, y0, bs, w, h), w, k),
                   NextTile(x0, y0, bs, w)[1], NextTile(x0, y0, bs, w)[2], bs, w, h, k)

\* the buffer applyBlockConfusion puts on a canvas that holds data
applyBlockConfusion(data, w, h, bs, k) ==
    BlockLoop(<<data, NoWrites(4 * w * h)>>, 0, 0, bs, w, h, k)[1]

----------------------------------------------------------------------------
(* Properties of the block transform (BlockSpec) *)

LastOp == ops[Len(ops)]

BlockDone == ppc = "idle" /\ ops # << >>

BlockTwice(b) ==
    applyBlockConfusion(applyBlockConfusion(b, width, height, blockSize, strengthK),
                        width, height, blockSize, strengthK)

\* C14: the block transform applied twice with strength > 0 is not the
\* identity: once two applications have been made, the canvas differs from
\* the buffer it started from, or some other buffer of the same size is
\* changed by two applications.
C14_BlockLossy ==
    (ppc = "idle" /\ ops = <<"block", "block">> /\ strengthK > 0)
        => (canvas # X \/ \E b \in BlockBuffers(NPix) : BlockTwice(b) # b)

Pixels == 0..(NPix - 1)

\* C15: while and after applyBlockConfusion runs, the buffer keeps its length
\* and every alpha sample; no alpha sample is ever assigned and no R, G or B
\* sample is assigned twice; when the pass ends every R, G and B sample has
\* been assigned exactly once.
C15_BlockFrame ==
    (ppc = "blockLoop" \/ BlockDone)
        => /\ DOMAIN imgdata = DOMAIN before
           /\ DOMAIN imgdata = 0..(4 * NPix - 1)
           /\ \A p \in Pixels :
                  /\ imgdata[4 * p + 3] = before[4 * p + 3]
                  /\ swrites[4 * p + 3] = 0
                  /\ \A c \in 0..2 : swrites[4 * p + c] <= 1
           /\ BlockDone =>
                  /\ canvas = imgdata
                  /\ \A p \in Pixels : \A c \in 0..2 : swrites[4 * p + c] = 1

\* a pass over a 3 x 2 image in tiles of 2 x 2 and 1 x 2 pixels has ended
C15_Witness ==
    /\ BlockDone /\ strengthK > 0
    /\ width = 3 /\ height = 2 /\ blockSize = 2
    /\ Len(tiles) = 2
    /\ tiles[2] = Tile(2, 0, 1, 2)
    /\ \A p \in Pixels : swrites[4 * p] = 1 /\ swrites[4 * p + 3] = 0

----------------------------------------------------------------------------
(* The handlers: confuseImage (part_000:300-313), deconfuseImage            *)
(* (part_000:316-329), encrypt (part_000:360-400), decrypt (part_000:476-   *)
(* 517) and the toBlob callback with setImageSrc (part_000:192-208).        *)
(* width, height and X are the dimensions and the pixels of displayImg; a   *)
(* displayed image that is not loaded has width 0 and height 0.  The two    *)
(* nested requestAnimationFrame calls are one scheduling step.              *)

MaxCallImg == 2      \* displayed images of 0..MaxCallImg by 0..MaxCallImg pixels

BlockThreshold == 8

\* mutant: only the width is checked
DimsInvalidWidthOnly(w, h) == w = 0

\* !img.width || !img.height || img.width === 0 || img.height === 0
DimsInvalid(w, h) == w = 0 \/ h = 0

\* mutant: blockSize 8 still takes the curve
UseGilbertAtThreshold(bs) == bs <= BlockThreshold

\* if (blockSize < 8)
UseGilbert(bs) == bs < BlockThreshold

\* fillRect in white and drawImage(img, 0, 0): source-over on an opaque
\* white canvas; for an opaque pixel the result is the pixel itself
DrawOnWhite(img) ==
    [p \in DOMAIN img |->
        IF p % 4 = 3 THEN 255
        ELSE LET a == img[p - (p % 4) + 3]
             IN  (2 * (img[p] * a + 255 * (255 - a)) + 255) \div 510]

\* the loop of applyGilbertConfusion reads curve[(i + offset) % N] at a
\* negative index for some i: new_pos is undefined and new_pos[0] throws
GilbertThrows(w, h, k) ==
    \E idx \in 0..(w * h - 1) : NewIndex(idx, EncryptOffset(w, h, k), w * h) < 0

\* imgdata2 after the first n iterations of the loop of decrypt
RECURSIVE DecryptLoop(_, _, _, _, _, _, _)
DecryptLoop(in, out, c, off, n, w, h) ==
    IF n = 0 THEN out
    ELSE DecryptBody(in, DecryptLoop(in, out, c, off, n - 1, w, h), c, off, n - 1, w, h)[2]

\* the buffer applyGilbertConfusion puts on a canvas that holds data
applyGilbertConfusion(data, w, h, k) ==
    EncryptLoop(data, NewImageData(w, h), gilbert2d(w, h), EncryptOffset(w, h, k),
                w * h, w, h)

\* the buffer decrypt puts on a canvas that holds data
DecryptConfusion(data, w, h) ==
    DecryptLoop(data, NewImageData(w, h), gilbert2d(w, h), DecryptOffset(w, h),
                w * h, w, h)

\* the pixels of the image decoded from the JPEG blob of a canvas: the canvas
\* content up to the coding error, which the program does not determine
JpegDecodes(data) ==
    { data,
      [p \in DOMAIN data |->
          IF p % 4 = 3 THEN 255 ELSE IF data[p] < 255 THEN data[p] + 1 ELSE 254] }

\* the blob toBlob makes of a canvas of w by h pixels
BlobOf(w, h, data) == [w |-> w, h |-> h, data |-> data]

\* opaque images
OpaqueBuffers(n) ==
    { [p \in DOMAIN b |-> IF p % 4 = 3 THEN 255 ELSE b[p]] : b \in SampleBuffers(n) }

\* values of the confusionStrength field, inside and outside 0..1
CallStrengths ==
    { 0 - (StrengthDen \div 2), StrengthDen \div 2, StrengthDen,
      StrengthDen + (StrengthDen \div 2) }

\* values of the blockSize field
CallBlockSizes == { 0 - 1, 0, BlockThreshold - 1, BlockThreshold }

\* an image has been set as displayImg.src and is loaded (width, height >= 1)
\* or not (a dimension is 0); or no image has been set yet
InitCall ==
    /\ imgSrc \in {0, 1}
    /\ shown = (IF imgSrc = 0 THEN Null ELSE [kind |-> "file"])
    /\ currentFile = Null /\ originalImage = Null
    /\ loading = << >> /\ converting = << >> /\ uncaught = FALSE
    /\ width \in 0..MaxCallImg
    /\ height \in 0..MaxCallImg
    /\ imgSrc = 0 => (width = 0 /\ height = 0)
    /\ X \in OpaqueBuffers(width * height)
    /\ strengthK \in CallStrengths
    /\ blockSize \in CallBlockSizes
    /\ display \in {"inline-block", "none"}
    /\ imgSrc = 1 => display = "inline-block"
    /\ toast = "none"
    /\ scheduled = << >> /\ pending = << >> /\ calls = << >>
    /\ canvas = NoBuffer /\ ops = << >>
    /\ before = NoBuffer /\ imgdata = NoBuffer /\ imgdata2 = NoBuffer
    /\ curve = << >> /\ offset = 0 /\ i = 0 /\ ppc = "unused" /\ writes = << >>
    /\ tileX = 0 /\ tileY = 0 /\ tiles = << >> /\ swrites = << >>

\* what no handler of the image operations changes, and with the dimensions
\* of the displayed image
callKept == <<stack, coordinates, cpc, strengthK, before, imgdata,
              imgdata2, curve, offset, i, ppc, writes, wnext, writers,
              blockSize, tileX, tileY, tiles, swrites,
              currentFile, originalImage, loading, converting, uncaught>>

callFixed == <<width, height, callKept>>

\* handler calls made or scheduled, the upload that chose the file not counted
Busy == Len(ops) + Len(scheduled) - (IF currentFile = Null THEN 0 ELSE 1)

\* confuseImage
ConfuseImage ==
    /\ Busy < MaxOps
    /\ IF imgSrc = 0
       THEN toast' = "warning" /\ UNCHANGED <<display, scheduled>>
       ELSE /\ toast' = "info"
            /\ display' = "none"
            /\ scheduled' = Append(scheduled, "encrypt")
    /\ UNCHANGED <<X, canvas, ops, imgSrc, pending, calls, shown, callFixed>>

\* deconfuseImage
DeconfuseImage ==
    /\ Busy < MaxOps
    /\ IF imgSrc = 0
       THEN toast' = "warning" /\ UNCHANGED <<display, scheduled>>
       ELSE /\ toast' = "info"
            /\ display' = "none"
            /\ scheduled' = Append(scheduled, "decrypt")
    /\ UNCHANGED <<X, canvas, ops, imgSrc, pending, calls, shown, callFixed>>

Called(name) == scheduled # << >> /\ Head(scheduled) = name

Returned(name) == scheduled' = Tail(scheduled) /\ ops' = Append(ops, name)

\* encrypt, lines 363-367: the dimension check fails
EncryptInvalid ==
    /\ Called("encrypt")
    /\ Returned("encrypt")
    /\ DimsInvalid(width, height)
    /\ toast' = "error"
    /\ display' = "inline-block"
    /\ calls' = <<"showToastError">>
    /\ UNCHANGED <<X, canvas, imgSrc, pending, shown, callFixed>>

\* encrypt, lines 369-395 with applyGilbertConfusion
EncryptGilbert ==
    /\ Called("encrypt")
    /\ Returned("encrypt")
    /\ ~DimsInvalid(width, height)
    /\ UseGilbert(blockSize)
    /\ ~GilbertThrows(width, height, strengthK)
    /\ canvas' = applyGilbertConfusion(DrawOnWhite(X), width, height, strengthK)
    /\ pending' = Append(pending, BlobOf(width, height, canvas'))
    /\ calls' = <<"drawImage", "applyGilbertConfusion", "getImageData", "gilbert2d",
                  "putImageData", "toBlob">>
    /\ UNCHANGED <<X, imgSrc, display, toast, shown, callFixed>>

\* mutant: the catch of encrypt leaves the image hidden, as in script.js
EncryptThrowsHidden ==
    /\ Called("encrypt")
    /\ Returned("encrypt")
    /\ ~DimsInvalid(width, height)
    /\ UseGilbert(blockSize)
    /\ GilbertThrows(width, height, strengthK)
    /\ canvas' = DrawOnWhite(X)
    /\ toast' = "error"
    /\ calls' = <<"drawImage", "applyGilbertConfusion", "getImageData", "gilbert2d",
                  "showToastError">>
    /\ UNCHANGED <<X, imgSrc, pending, shown, display, callFixed>>

\* encrypt, lines 369-387 and 396-399: the loop of applyGilbertConfusion throws
EncryptThrows ==
    /\ Called("encrypt")
    /\ Returned("encrypt")
    /\ ~DimsInvalid(width, height)
    /\ UseGilbert(blockSize)
    /\ GilbertThrows(width, height, strengthK)
    /\ canvas' = DrawOnWhite(X)
    /\ toast' = "error"
    /\ display' = "inline-block"
    /\ calls' = <<"drawImage", "applyGilbertConfusion", "getImageData", "gilbert2d",
                  "showToastError">>
    /\ UNCHANGED <<X, imgSrc, pending, shown, callFixed>>

\* encrypt, lines 369-395 with applyBlockConfusion
EncryptBlock ==
    /\ Called("encrypt")
    /\ Returned("encrypt")
    /\ ~DimsInvalid(width, height)
    /\ ~UseGilbert(blockSize)
    /\ canvas' = applyBlockConfusion(DrawOnWhite(X), width, height, blockSize, strengthK)
    /\ pending' = Append(pending, BlobOf(width, height, canvas'))
    /\ calls' = <<"drawImage", "applyBlockConfusion", "getImageData", "putImageData",
                  "toBlob">>
    /\ UNCHANGED <<X, imgSrc, display, toast, shown, callFixed>>

\* decrypt, lines 479-483: the dimension check fails
DecryptInvalid ==
    /\ Called("decrypt")
    /\ Returned("decrypt")
    /\ DimsInvalid(width, height)
    /\ toast' = "error"
    /\ display' = "inline-block"
    /\ calls' = <<"showToastError">>
    /\ UNCHANGED <<X, canvas, imgSrc, pending, shown, callFixed>>

\* decrypt, lines 485-512
DecryptRun ==
    /\ Called("decrypt")
    /\ Returned("decrypt")
    /\ ~DimsInvalid(width, height)
    /\ canvas' = DecryptConfusion(DrawOnWhite(X), width, height)
    /\ pending' = Append(pending, BlobOf(width, height, canvas'))
    /\ calls' = <<"drawImage", "getImageData", "gilbert2d", "putImageData", "toBlob">>
    /\ UNCHANGED <<X, imgSrc, display, toast, shown, callFixed>>

\* the toBlob callback: setImageSrc(URL.createObjectURL(b)), showToast
BlobCallback ==
    /\ pending # << >>
    /\ imgSrc' = imgSrc + 1
    /\ shown' = Blob
    /\ width' = Head(pending).w
    /\ height' = Head(pending).h
    /\ X' \in JpegDecodes(Head(pending).data)
    /\ display' = "inline-block"
    /\ toast' = "success"
    /\ pending' = Tail(pending)
    /\ UNCHANGED <<canvas, ops, scheduled, calls, callKept>>

NextCall ==
    ConfuseImage \/ DeconfuseImage \/ EncryptInvalid \/ EncryptGilbert \/ EncryptThrows
        \/ EncryptBlock \/ DecryptInvalid \/ DecryptRun \/ BlobCallback

CallInit == InitCall /\ CurveUnused /\ ParUnused

CallSpec == CallInit /\ [][NextCall]_vars

----------------------------------------------------------------------------
(* Properties of encrypt and decrypt (CallSpec) *)

\* the last call of encrypt or decrypt called the function name
Applied(name) == \E j \in 1..Len(calls) : calls[j] = name

EncryptReturned == ops # << >> /\ LastOp = "encrypt"

\* C11: every call of encrypt applies the Gilbert permutation exactly when
\* blockSize < 8 and the block transform exactly when blockSize >= 8, hence
\* exactly one of the two.
C11_ModeSelection ==
    EncryptReturned
        => /\ Applied("applyGilbertConfusion") <=> blockSize < 8
           /\ Applied("applyBlockConfusion") <=> blockSize >= 8

\* C11, amended: a call of encrypt on an image with non-zero width and height
\* applies the Gilbert permutation exactly when blockSize < 8 and the block
\* transform exactly when blockSize >= 8; a call on an image whose width or
\* height is 0 applies neither.
C11_ModeSelectionValid ==
    EncryptReturned
        => IF width >= 1 /\ height >= 1
           THEN /\ Applied("applyGilbertConfusion") <=> blockSize < 8
                /\ Applied("applyBlockConfusion") <=> blockSize >= 8
           ELSE /\ ~Applied("applyGilbertConfusion")
                /\ ~Applied("applyBlockConfusion")

\* encrypt has returned for blockSize 8 on a loaded image and the block
\* transform was applied
C11_Witness ==
    /\ EncryptReturned
    /\ width >= 1 /\ height >= 1
    /\ blockSize = 8
    /\ Applied("applyBlockConfusion") /\ ~Applied("applyGilbertConfusion")

\* C12: a call of encrypt or decrypt on an image whose width or height is 0
\* shows an error toast and calls nothing else (no drawImage, getImageData,
\* gilbert2d, putImageData or toBlob); the displayed source, the image and
\* the queue of blob callbacks are left as they were.
C12_ZeroAreaRejected ==
    [][((width = 0 \/ height = 0) /\ ops' # ops)
          => /\ toast' = "error"
             /\ calls' = <<"showToastError">>
             /\ imgSrc' = imgSrc
             /\ X' = X
             /\ canvas' = canvas
             /\ pending' = pending]_vars

\* encrypt and then decrypt have been called on a displayed image of height 0
C12_Witness ==
    /\ ops = <<"encrypt", "decrypt">>
    /\ width >= 1 /\ height = 0
    /\ imgSrc = 1
    /\ toast = "error"
    /\ calls = <<"showToastError">>
    /\ canvas = NoBuffer /\ pending = << >>

\* C13: a call of encrypt with strength outside [0,1] or blockSize <= 0 shows
\* an error toast and applies neither transform.
C13_ParameterRejection ==
    (EncryptReturned /\ (strengthK < 0 \/ strengthK > StrengthDen \/ blockSize <= 0))
        => /\ Applied("showToastError")
           /\ ~Applied("applyGilbertConfusion")
           /\ ~Applied("applyBlockConfusion")

----------------------------------------------------------------------------
(* The round trip at full strength (PermSpec) *)

\* C21: at strength 1 the offset of applyGilbertConfusion is the offset of
\* the encrypt of script.js, and after encrypt then decrypt, or decrypt then
\* encrypt, the canvas holds the buffer the first of the two started from,
\* sample for sample.
C21_FullStrengthRoundTrip ==
    strengthK = StrengthDen
        => /\ EncryptOffset(width, height, strengthK) = ScriptEncryptOffset(width, height)
           /\ (ppc = "idle" /\ ops = <<"encrypt", "decrypt">>) => canvas = X
           /\ (ppc = "idle" /\ ops = <<"decrypt", "encrypt">>) => canvas = X

\* a 3 x 2 image has been encrypted at strength 1, which changed it, and
\* then decrypted
C21_Witness ==
    /\ strengthK = StrengthDen
    /\ ppc = "idle" /\ ops = <<"encrypt", "decrypt">>
    /\ width = 3 /\ height = 2
    /\ before # X
    /\ canvas = X

----------------------------------------------------------------------------
(* The tiles of applyBlockConfusion (BlockSpec) *)

\* the pixels of a tile
Cells(t) ==
    { <<cx, cy>> : cx \in t.startX..(t.startX + t.blockWidth - 1),
                   cy \in t.startY..(t.startY + t.blockHeight - 1) }

Grid == { <<cx, cy>> : cx \in 0..(width - 1), cy \in 0..(height - 1) }

\* C22: every tile applyBlockConfusion visits has its origin on a multiple of
\* blockSize, the size min(blockSize, width - x) by min(blockSize, height - y)
\* and lies inside the buffer; no two visited tiles share a pixel; when the
\* pass ends every pixel of the grid is in exactly one visited tile.
C22_TilePartition ==
    (ppc = "blockLoop" \/ BlockDone)
        => /\ \A j \in 1..Len(tiles) :
                  /\ tiles[j].startX % blockSize = 0
                  /\ tiles[j].startY % blockSize = 0
                  /\ tiles[j].blockWidth >= 1 /\ tiles[j].blockHeight >= 1
                  /\ tiles[j].blockWidth = Min(blockSize, width - tiles[j].startX)
                  /\ tiles[j].blockHeight = Min(blockSize, height - tiles[j].startY)
                  /\ Cells(tiles[j]) \subseteq Grid
           /\ \A j, k \in 1..Len(tiles) :
                  j # k => Cells(tiles[j]) \cap Cells(tiles[k]) = {}
           /\ BlockDone =>
                  \A c \in Grid :
                      Cardinality({ j \in 1..Len(tiles) : c \in Cells(tiles[j]) }) = 1

\* a pass over a 3 x 3 image in tiles of blockSize 2 has ended: four tiles,
\* the last one the clipped 1 x 1 tile at (2, 2)
C22_Witness ==
    /\ BlockDone
    /\ width = 3 /\ height = 3 /\ blockSize = 2
    /\ Len(tiles) = 4
    /\ tiles[1] = Tile(0, 0, 2, 2)
    /\ tiles[4] = Tile(2, 2, 1, 1)

----------------------------------------------------------------------------
(* The smooth factor of processBlockSmooth (BlockSpec) *)

\* C23: for every tile processBlockSmooth is called for, every pixel offset
\* (dx, dy) inside it and the strength in [0,1] of the pass: distance is at
\* most maxDistance, maxDistance is not zero and smoothFactor lies in [0,1].
C23_SmoothFactorRange ==
    \A j \in 1..Len(tiles) :
        /\ tiles[j].blockWidth >= 1 /\ tiles[j].blockHeight >= 1
        /\ MaxDistSq(tiles[j]) > 0
        /\ \A dx \in 0..(tiles[j].blockWidth - 1), dy \in 0..(tiles[j].blockHeight - 1) :
               /\ DistSq(tiles[j], dx, dy) <= MaxDistSq(tiles[j])
               /\ (strengthK >= 0 /\ strengthK <= StrengthDen)
                      => /\ SmoothFactorAtLeast0(strengthK, DistSq(tiles[j], dx, dy),
                                                 MaxDistSq(tiles[j]))
                         /\ SmoothFactorAtMost1(strengthK, DistSq(tiles[j], dx, dy),
                                                MaxDistSq(tiles[j]))

\* a 2 x 2 tile has been processed at strength 1: at offset (0, 0) distance
\* equals maxDistance (smoothFactor 0), at offset (1, 1) distance is 0
C23_Witness ==
    /\ BlockDone /\ strengthK = StrengthDen
    /\ width = 2 /\ height = 2 /\ blockSize = 2
    /\ tiles = << Tile(0, 0, 2, 2) >>
    /\ DistSq(tiles[1], 0, 0) = MaxDistSq(tiles[1])
    /\ DistSq(tiles[1], 1, 1) = 0

----------------------------------------------------------------------------
(* The page: TomatoImageConfusion from its constructor (part_000:79-84) on, *)
(* with handleFileUpload (part_000:210-297), restoreImage (part_000:348-    *)
(* 357), invertImage and invert (part_000:332-345, 568-607), the            *)
(* convertToJPG in force (part_000:934-968, the later of the two methods of *)
(* that name) and the handlers of CallSpec.  Setting displayImg.src and the *)
(* load of the displayed image are one step.                                *)

MaxEvents == 3       \* uploads and clicks in one run

\* the files the user can choose: by what handleFileUpload does with them
FileKinds == {"notImage", "empty", "tooLarge", "corrupt", "noSize", "good"}
Files == { [kind |-> k] : k \in FileKinds }

\* the decoded image of a file: a good upload is a 2 x 1 opaque image, a
\* converted file is the image decoded from its JPEG data, any other file
\* gives an image without dimensions
FileWidth(f) ==
    IF f.kind = "good" THEN 2 ELSE IF f.kind = "converted" THEN f.w ELSE 0
FileHeight(f) ==
    IF f.kind = "good" THEN 1 ELSE IF f.kind = "converted" THEN f.h ELSE 0
FilePixels(f) ==
    IF f.kind = "good" THEN [p \in 0..7 |-> IF p % 4 = 3 THEN 255 ELSE 40 * p + 7]
    ELSE IF f.kind = "converted" THEN f.data
    ELSE NoBuffer

\* new File([blob], 'converted.jpg')
JpgFile(w, h, data) == [kind |-> "converted", w |-> w, h |-> h, data |-> data]

\* data[i] = 255 - data[i] for R, G and B
Invert(data) == [p \in DOMAIN data |-> IF p % 4 = 3 THEN data[p] ELSE 255 - data[p]]

\* a sequence without its j-th element
Without(q, j) == [n \in 1..(Len(q) - 1) |-> IF n < j THEN q[n] ELSE q[n + 1]]

\* the settings of the two sliders, <<strength, blockSize>>: the curve branch
\* with a positive and with a negative strength, and the block branch
UiSettings ==
    { <<StrengthDen \div 2, BlockThreshold - 1>>,
      <<0 - (StrengthDen \div 2), BlockThreshold - 1>>,
      <<StrengthDen \div 2, BlockThreshold>> }

\* the state the constructor leaves, before any image is chosen
InitUi ==
    /\ currentFile = Null /\ originalImage = Null
    /\ imgSrc = 0 /\ shown = Null
    /\ width = 0 /\ height = 0 /\ X = NoBuffer
    /\ \E s \in UiSettings : strengthK = s[1] /\ blockSize = s[2]
    /\ display = "unset"
    /\ toast = "none"
    /\ scheduled = << >> /\ pending = << >> /\ calls = << >>
    /\ loading = << >> /\ converting = << >> /\ uncaught = FALSE
    /\ canvas = NoBuffer /\ ops = << >>
    /\ before = NoBuffer /\ imgdata = NoBuffer /\ imgdata2 = NoBuffer
    /\ curve = << >> /\ offset = 0 /\ i = 0 /\ ppc = "unused" /\ writes = << >>
    /\ tileX = 0 /\ tileY = 0 /\ tiles = << >> /\ swrites = << >>

uiKept == <<stack, coordinates, cpc, strengthK, before, imgdata, imgdata2, curve,
            offset, i, ppc, writes, wnext, writers, blockSize, tileX, tileY, tiles,
            swrites>>

uiFixed == <<uiKept, canvas, calls, scheduled, pending>>

Room == Len(ops) + Len(scheduled) < MaxEvents

\* handleFileUpload, lines 211-235 and 237-246, 290-292: the checks of the
\* file, then currentFile and the start of the load with its timer
Upload ==
    /\ Room
    /\ \E f \in Files :
          IF f.kind \in {"notImage", "empty", "tooLarge"}
          THEN /\ toast' = (IF f.kind = "tooLarge" THEN "warning" ELSE "error")
               /\ UNCHANGED <<currentFile, loading>>
          ELSE /\ currentFile' = f
               /\ loading' = Append(loading, [file |-> f, timer |-> TRUE])
               /\ UNCHANGED toast
    /\ ops' = Append(ops, "upload")
    /\ UNCHANGED <<originalImage, imgSrc, shown, width, height, X, display,
                   converting, uncaught, uiFixed>>

\* img.onload, lines 248-277
ImgOnload ==
    \E j \in 1..Len(loading) :
        /\ loading[j].file.kind \in {"good", "noSize"}
        /\ loading' = Without(loading, j)
        /\ IF DimsInvalid(FileWidth(loading[j].file), FileHeight(loading[j].file))
           THEN /\ toast' = "error"
                /\ UNCHANGED <<originalImage, imgSrc, shown, width, height, X, display>>
           ELSE /\ originalImage' = loading[j].file
                /\ imgSrc' = imgSrc + 1
                /\ shown' = loading[j].file
                /\ width' = FileWidth(loading[j].file)
                /\ height' = FileHeight(loading[j].file)
                /\ X' = FilePixels(loading[j].file)
                /\ display' = "inline-block"
                /\ toast' = "success"
        /\ UNCHANGED <<currentFile, ops, converting, uncaught, uiFixed>>

\* img.onerror, lines 278-288
ImgOnerror ==
    \E j \in 1..Len(loading) :
        /\ loading[j].file.kind = "corrupt"
        /\ loading' = Without(loading, j)
        /\ toast' = "error"
        /\ UNCHANGED <<currentFile, originalImage, imgSrc, shown, width, height, X,
                       display, ops, converting, uncaught, uiFixed>>

\* the timer of handleFileUpload, lines 243-246: img.onload = null, so the
\* load of an image that decodes has no handler left; img.onerror stays
LoadTimeout ==
    \E j \in 1..Len(loading) :
        /\ loading[j].timer
        /\ loading' = IF loading[j].file.kind = "corrupt"
                      THEN [loading EXCEPT ![j] = [@ EXCEPT !.timer = FALSE]]
                      ELSE Without(loading, j)
        /\ toast' = "error"
        /\ UNCHANGED <<currentFile, originalImage, imgSrc, shown, width, height, X,
                       display, ops, converting, uncaught, uiFixed>>

\* restoreImage: setImageSrc of a URL of currentFile, then the read of
\* this.originalImage.width, a TypeError when originalImage is null
RestoreImage ==
    /\ Room
    /\ IF currentFile = Null
       THEN /\ toast' = "warning"
            /\ UNCHANGED <<imgSrc, shown, width, height, X, display, uncaught>>
       ELSE /\ imgSrc' = imgSrc + 1
            /\ shown' = currentFile
            /\ width' = FileWidth(currentFile)
            /\ height' = FileHeight(currentFile)
            /\ X' = FilePixels(currentFile)
            /\ display' = "inline-block"
            /\ IF originalImage = Null
               THEN uncaught' = TRUE /\ UNCHANGED toast
               ELSE toast' = "success" /\ UNCHANGED uncaught
    /\ ops' = Append(ops, "restore")
    /\ UNCHANGED <<currentFile, originalImage, loading, converting, uiFixed>>

\* convertToJPG, lines 934-968 up to the call of toBlob: drawImage throws on
\* an image that has no dimensions, and the catch shows an error; the images
\* of the model are opaque, so the canvas holds their pixels
ConvertToJPG ==
    /\ Room
    /\ IF imgSrc = 0
       THEN toast' = "warning" /\ UNCHANGED converting
       ELSE IF DimsInvalid(width, height)
       THEN toast' = "error" /\ UNCHANGED converting
       ELSE /\ toast' = "info"
            /\ converting' = Append(converting, BlobOf(width, height, X))
    /\ ops' = Append(ops, "convert")
    /\ UNCHANGED <<currentFile, originalImage, imgSrc, shown, width, height, X, display,
                   loading, uncaught, uiFixed>>

\* the toBlob callback of convertToJPG, lines 954-960
ConvertCallback ==
    /\ converting # << >>
    /\ \E d \in JpegDecodes(Head(converting).data) :
          /\ currentFile' = JpgFile(Head(converting).w, Head(converting).h, d)
          /\ shown' = JpgFile(Head(converting).w, Head(converting).h, d)
          /\ X' = d
    /\ imgSrc' = imgSrc + 1
    /\ width' = Head(converting).w
    /\ height' = Head(converting).h
    /\ display' = "inline-block"
    /\ toast' = "success"
    /\ converting' = Tail(converting)
    /\ UNCHANGED <<originalImage, ops, loading, uncaught, uiFixed>>

\* invertImage
InvertImage ==
    /\ Room
    /\ IF imgSrc = 0
       THEN toast' = "warning" /\ UNCHANGED <<display, scheduled>>
       ELSE /\ toast' = "info"
            /\ display' = "none"
            /\ scheduled' = Append(scheduled, "invert")
    /\ UNCHANGED <<X, canvas, ops, imgSrc, pending, calls, shown, callFixed>>

\* invert, lines 571-575: the dimension check fails
InvertInvalid ==
    /\ Called("invert")
    /\ Returned("invert")
    /\ DimsInvalid(width, height)
    /\ toast' = "error"
    /\ display' = "inline-block"
    /\ calls' = <<"showToastError">>
    /\ UNCHANGED <<X, canvas, imgSrc, pending, shown, callFixed>>

\* invert, lines 577-602
InvertRun ==
    /\ Called("invert")
    /\ Returned("invert")
    /\ ~DimsInvalid(width, height)
    /\ canvas' = Invert(DrawOnWhite(X))
    /\ pending' = Append(pending, BlobOf(width, height, canvas'))
    /\ calls' = <<"drawImage", "getImageData", "putImageData", "toBlob">>
    /\ UNCHANGED <<X, imgSrc, display, toast, shown, callFixed>>

\* the callbacks requestAnimationFrame runs: encrypt, decrypt or invert
FrameCallback ==
    EncryptInvalid \/ EncryptGilbert \/ EncryptThrows \/ EncryptBlock
        \/ DecryptInvalid \/ DecryptRun \/ InvertInvalid \/ InvertRun

NextUi ==
    Upload \/ ImgOnload \/ ImgOnerror \/ LoadTimeout \/ RestoreImage \/ ConvertToJPG
        \/ ConvertCallback \/ ConfuseImage \/ DeconfuseImage \/ InvertImage
        \/ EncryptInvalid \/ EncryptGilbert \/ EncryptThrows \/ EncryptBlock
        \/ DecryptInvalid \/ DecryptRun \/ InvertInvalid \/ InvertRun \/ BlobCallback

UiInit == InitUi /\ CurveUnused /\ ParUnused

UiSpec == UiInit /\ [][NextUi]_vars

\* the browser runs the callback at the head of the animation-frame queue,
\* and delivers the blob at the head of the toBlob queue
FrameRuns == scheduled # << >> /\ scheduled' = Tail(scheduled)
BlobRuns == pending # << >> /\ pending' = Tail(pending)

\* a queued callback can always run: one branch of its handler is enabled, so
\* the steps of FrameRuns and BlobRuns are those of FrameCallback and BlobCallback
CallbacksEnabled ==
    /\ scheduled # << >> => ENABLED FrameCallback
    /\ pending # << >> => ENABLED BlobCallback

\* the animation-frame callbacks and the toBlob callbacks eventually run
FairUiSpec == UiSpec /\ WF_scheduled(FrameRuns) /\ WF_pending(BlobRuns)

----------------------------------------------------------------------------
(* Properties of the page (UiSpec, FairUiSpec) *)

Uploads == { j \in 1..Len(ops) : ops[j] = "upload" }

\* C24: once a file F has been uploaded and loaded (F is the only upload of
\* the run and originalImage is its image), every restoreImage displays F,
\* whatever confuse, deconfuse, invert and convert-to-JPG operations came
\* before it.
C24_RestoreReturnsUpload ==
    [][(ops' = Append(ops, "restore") /\ Cardinality(Uploads) = 1 /\ originalImage # Null)
          => shown' = originalImage]_vars

\* C25: currentFile non-null implies originalImage non-null, and no handler
\* has ended with an uncaught TypeError.
C25_OriginalImageSet ==
    /\ currentFile # Null => originalImage # Null
    /\ ~uncaught

====
